---- MODULE Spec2Model ----
(***************************************************************************)
(* Attendance system: the attendance ledger (check-in state machine), the  *)
(* event scope resolver (student event listing) and the identity gate      *)
(* (register / login), modelled from server/routes.ts, server/storage.ts   *)
(* and the table schema.                                                   *)
(*                                                                         *)
(* Tables are sets of rows.  A handler that awaits the database between a  *)
(* read and a dependent write (check-in, register) is split at that await, *)
(* so that requests served concurrently interleave there; the other        *)
(* handlers are single actions.  Optional values (a nullable timestamp, an *)
(* optional body field, the result of a lookup) are sets or sequences of   *)
(* at most one element.                                                    *)
(***************************************************************************)
EXTENDS Integers, Sequences, FiniteSets, TLC

\* ---------------------------------------------------------------- bounds
MaxTime == 2
MaxEvents == 1
MaxCheckins == 3
MaxStudents == 3
MaxRows == 2

\* The request slots: two requests can be in flight at once.
Procs == {"p1", "p2"}

\* ------------------------------------------------------------- constants
NULL == <<>>
NullStr == "null"

Some(x) == <<x>>

AdminEmail == "admin@attendance.com"
AdminPassword == <<"a", "d", "m", "i", "n", "1", "2", "3">>

VARIABLES
    users,                \* table users
    students,             \* table students
    events,               \* table events
    eventCourseSections,  \* table event_course_sections
    attendance,           \* table attendance
    tokens,               \* user ids for which login has signed a bearer token
    now,                  \* the server clock (new Date(), Date.now())
    nextEventId,          \* number of events created so far (source of fresh uuids)
    nextStudentId,        \* number of students created so far (source of fresh uuids)
    req,                  \* per request slot: the handler in flight, its locals, and
                          \* (history) the path and the principal of the request
    res,                  \* the last response sent
    issued,               \* history: the QR payloads handed out for each event
    calls,                \* history: check-in calls completed per (event, student)
    raced,                \* history: pairs on which two check-in calls overlapped
    courses,              \* table courses
    sections,             \* table sections
    systemSettings,       \* table system_settings
    nextRowId             \* number of course, section and settings rows created so far

vars == <<users, students, events, eventCourseSections, attendance, tokens, now,
          nextEventId, nextStudentId, req, res, issued, calls, raced, courses,
          sections, systemSettings, nextRowId>>

tables == <<users, students, events, eventCourseSections, attendance>>
catalog == <<courses, sections, systemSettings, nextRowId>>

\* --------------------------------------------------------------- helpers

\* gen_random_uuid() column default of events.id, and uuidv4() of routes.ts:
\* two independent random uuids, never equal.
DbUuid(n) == <<"gen_random_uuid", n>>
Uuidv4(n) == <<"uuidv4", n>>

\* JSON.stringify({ eventId, timestamp }) and JSON.parse of a request string.
\* A string that is not JSON has json = FALSE and makes JSON.parse throw.
JSONstringify(eventId, timestamp) ==
    [json |-> TRUE, eventId |-> eventId, timestamp |-> timestamp]
NotJson == [json |-> FALSE, eventId |-> DbUuid(0), timestamp |-> 0]
JSONparseThrows(s) == ~s.json
JSONparse(s) == [eventId |-> s.eventId, timestamp |-> s.timestamp]

\* QRCode.toDataURL: the image that renders the payload.
QRCodeToDataURL(data) == <<"data:image/png", data>>

\* bcrypt.hash / bcrypt.compare (the salt is not modelled).
BcryptHash(pw) == <<"$2a$10$", pw>>
BcryptCompare(pw, hash) == hash = BcryptHash(pw)

\* jwt.sign({ userId }) / jwt.verify; a token is what a request presents.
\* jwt.verify throws on a bad signature and on a token past its expiry (7 days
\* after signing, far beyond the times modelled here).
JwtSign(userId) == [userId |-> userId, signed |-> TRUE, expired |-> FALSE]
ForgedToken == [userId |-> 1, signed |-> FALSE, expired |-> FALSE]
ExpiredToken == [userId |-> 1, signed |-> TRUE, expired |-> TRUE]
\* A token the server signed for a user whose row is not in the database.
StaleToken == [userId |-> 0, signed |-> TRUE, expired |-> FALSE]
JwtVerifyThrows(tok) == ~tok.signed \/ tok.expired

\* ------------------------------------------------------ storage (storage.ts)
getUser(id) == {u \in users : u.id = id}
getUserByEmail(email) == {u \in users : u.email = email}
getStudentByStudentId(studentId) == {s \in students : s.studentId = studentId}
getEventCourseSections(eventId) ==
    {x \in eventCourseSections : x.eventId = eventId}

\* select ... where event_id = e and student_id = s: the rows that match.  The
\* handler takes the first row of an unordered result, i.e. any one of them.
getAttendance(eventId, studentId) ==
    {r \in attendance : r.eventId = eventId /\ r.studentId = studentId}

\* insert into attendance: the table has a primary key on id only, so the
\* insert always succeeds.  The id is a fresh uuid: rows are never deleted, so
\* the pair with the number of rows it already has names no existing row.
createAttendance(eventId, studentId, timeIn, timeOut) ==
    [id |-> <<eventId, studentId,
              Cardinality({r \in attendance :
                              r.eventId = eventId /\ r.studentId = studentId}) + 1>>,
     eventId |-> eventId,
     studentId |-> studentId, timeIn |-> timeIn, timeOut |-> timeOut]

\* Faulty variant: the update writes the whole record, time-in included.
updateAttendanceRewritesTimeIn(id, timeOut) ==
    {IF r.id = id THEN [r EXCEPT !.timeIn = timeOut, !.timeOut = timeOut] ELSE r
     : r \in attendance}

\* update attendance set time_out = t where id = id
updateAttendance(id, timeOut) ==
    {IF r.id = id THEN [r EXCEPT !.timeOut = timeOut] ELSE r : r \in attendance}

deleteEventRows(id) == {e \in events : e.id # id}
deleteEventCourseSections(eventId) ==
    {x \in eventCourseSections : x.eventId # eventId}
deleteStudentRows(id) == {s \in students : s.id # id}

\* ------------------------------------------------------- authMiddleware
\* Faulty variant: the token is decoded without being verified.
AuthenticateUnverified(tok) ==
    IF tok = NULL THEN {} ELSE getUser(tok[1].userId)

\* The principal of a request: the current User row of a verified token.
Authenticate(tok) ==
    IF tok = NULL \/ JwtVerifyThrows(tok[1]) THEN {}
    ELSE getUser(tok[1].userId)

AuthError(tok) ==
    IF tok = NULL THEN "No authorization header"
    ELSE IF JwtVerifyThrows(tok[1]) THEN "Invalid token"
    ELSE "User not found"

Idle == [pc |-> "idle"]
Response(op, status, message) == [op |-> op, status |-> status, message |-> message]

\* ----------------------------------------- POST /api/attendance/checkin
\* Faulty variant: the QR branch takes the student from the body when the body names one.
CheckinResolveTrustsBody(user, body) ==
    IF body.qrCodeData # NULL
    THEN IF JSONparseThrows(body.qrCodeData[1])
         THEN [status |-> 500, message |-> "Unexpected token in JSON"]
         ELSE IF user.studentId = NullStr
         THEN [status |-> 400, message |-> "Not a student account"]
         ELSE LET sid == IF body.studentId # NULL THEN body.studentId[1]
                         ELSE user.studentId
              IN  IF getStudentByStudentId(sid) = {}
                  THEN [status |-> 404, message |-> "Student not found"]
                  ELSE [status |-> 200, message |-> "",
                        eventId |-> JSONparse(body.qrCodeData[1]).eventId,
                        studentId |-> (CHOOSE s \in getStudentByStudentId(sid) : TRUE).id]
    ELSE IF body.studentId # NULL /\ body.eventId # NULL
    THEN IF getStudentByStudentId(body.studentId[1]) = {}
         THEN [status |-> 404, message |-> "Student not found"]
         ELSE [status |-> 200, message |-> "",
               eventId |-> body.eventId[1],
               studentId |-> (CHOOSE s \in getStudentByStudentId(body.studentId[1]) : TRUE).id]
    ELSE [status |-> 400, message |-> "Invalid check-in data"]

\* Faulty variant: a check-in for an event that is stored as inactive is refused.
CheckinResolveActiveOnly(user, body) ==
    LET r == CheckinResolveTrustsBody(user, [body EXCEPT !.studentId =
                  IF body.qrCodeData # NULL THEN NULL ELSE @])
    IN  IF r.status = 200 /\ \E e \in events : e.id = r.eventId /\ ~e.isActive
        THEN [status |-> 400, message |-> "Event is not active"]
        ELSE r

\* routes.ts 490-519: which (eventId, studentId) the request is about, or the
\* error response.  body = [qrCodeData, studentId, eventId], each optional.
CheckinResolve(user, body) ==
    IF body.qrCodeData # NULL
    THEN IF JSONparseThrows(body.qrCodeData[1])
         THEN [status |-> 500, message |-> "Unexpected token in JSON"]
         ELSE IF user.studentId = NullStr
         THEN [status |-> 400, message |-> "Not a student account"]
         ELSE IF getStudentByStudentId(user.studentId) = {}
         THEN [status |-> 404, message |-> "Student not found"]
         ELSE [status |-> 200, message |-> "",
               eventId |-> JSONparse(body.qrCodeData[1]).eventId,
               studentId |-> (CHOOSE s \in getStudentByStudentId(user.studentId) : TRUE).id]
    ELSE IF body.studentId # NULL /\ body.eventId # NULL
    THEN IF getStudentByStudentId(body.studentId[1]) = {}
         THEN [status |-> 404, message |-> "Student not found"]
         ELSE [status |-> 200, message |-> "",
               eventId |-> body.eventId[1],
               studentId |-> (CHOOSE s \in getStudentByStudentId(body.studentId[1]) : TRUE).id]
    ELSE [status |-> 400, message |-> "Invalid check-in data"]

CallsOf(pair) == IF pair \in DOMAIN calls THEN calls[pair] ELSE 0

RECURSIVE SumCalls(_)
SumCalls(pairs) ==
    IF pairs = {} THEN 0
    ELSE LET pair == CHOOSE x \in pairs : TRUE
         IN  calls[pair] + SumCalls(pairs \ {pair})

\* Check-in calls that reached the ledger, completed or in flight.
CheckinsStarted ==
    SumCalls(DOMAIN calls) + Cardinality({p \in Procs : req[p].pc = "checkin"})

CheckinPath(body) == IF body.qrCodeData # NULL THEN "qr" ELSE "manual"

\* What `const [record] = await db.select()...` can yield: no row, or any one
\* of the matching rows.
FirstRowOf(rows) == IF rows = {} THEN {{}} ELSE {{r} : r \in rows}

\* authMiddleware, the resolution of the pair and `await storage.getAttendance`
\* (routes.ts 488-522).  The handler then awaits the write.
CheckinLookup(p, tok, body) ==
    /\ req[p].pc = "idle"
    /\ CheckinsStarted < MaxCheckins
    /\ IF Authenticate(tok) = {}
       THEN /\ res' = Response("checkin", 401, AuthError(tok))
            /\ UNCHANGED <<req, raced>>
       ELSE LET user == CHOOSE u \in Authenticate(tok) : TRUE
                r == CheckinResolve(user, body)
            IN  IF r.status # 200
                THEN /\ res' = Response("checkin", r.status, r.message)
                     /\ UNCHANGED <<req, raced>>
                ELSE /\ \E found \in FirstRowOf(getAttendance(r.eventId, r.studentId)) :
                            req' = [req EXCEPT ![p] =
                                      [pc |-> "checkin", eventId |-> r.eventId,
                                       studentId |-> r.studentId, found |-> found,
                                       path |-> CheckinPath(body), user |-> user.id]]
                     /\ raced' = IF \E q \in Procs \ {p} :
                                       /\ req[q].pc = "checkin"
                                       /\ req[q].eventId = r.eventId
                                       /\ req[q].studentId = r.studentId
                                 THEN raced \cup {<<r.eventId, r.studentId>>}
                                 ELSE raced
                     /\ UNCHANGED res
    /\ UNCHANGED catalog
    /\ UNCHANGED <<tables, tokens, now, nextEventId, nextStudentId, issued, calls>>

\* res.json({ type, attendance }) or res.status(400).json({ message }).
CheckinResponse(status, message, type, rows) ==
    [op |-> "checkin", status |-> status, message |-> message, type |-> type,
     attendance |-> rows]

\* routes.ts 524-541: create with time-in, or update with time-out, or refuse,
\* decided on the row the lookup returned.
CheckinWrite(p) ==
    /\ req[p].pc = "checkin"
    /\ LET l == req[p]
           pair == <<l.eventId, l.studentId>>
       IN  /\ IF l.found = {}
              THEN LET row == createAttendance(l.eventId, l.studentId, Some(now), NULL)
                   IN  /\ attendance' = attendance \cup {row}
                       /\ res' = CheckinResponse(200, "", "in", {row})
              ELSE LET a == CHOOSE x \in l.found : TRUE
                   IN  IF a.timeOut = NULL
                       THEN /\ attendance' = updateAttendance(a.id, Some(now))
                            /\ res' = CheckinResponse(200, "", "out",
                                         {x \in attendance' : x.id = a.id})
                       ELSE /\ attendance' = attendance
                            /\ res' = CheckinResponse(400,
                                         "Attendance already complete", "", {})
           /\ calls' = [q \in DOMAIN calls \cup {pair} |->
                          IF q = pair THEN CallsOf(pair) + 1
                          ELSE calls[q]]
    /\ req' = [req EXCEPT ![p] = Idle]
    /\ UNCHANGED catalog
    /\ UNCHANGED <<users, students, events, eventCourseSections, tokens, now,
                   nextEventId, nextStudentId, issued, raced>>

\* Time passes between two reads of the clock.
Tick ==
    /\ now < MaxTime
    /\ now' = now + 1
    /\ UNCHANGED catalog
    /\ UNCHANGED <<tables, tokens, nextEventId, nextStudentId, req, res, issued,
                   calls, raced>>

\* ------------------------------------------------------------ role gate
\* Faulty variant: the role of the principal is not compared.
GateAuthenticatedOnly(op, tok, role) ==
    IF Authenticate(tok) = {}
    THEN Some(Response(op, 401, AuthError(tok)))
    ELSE NULL

\* authMiddleware followed by `if (req.user.role !== role) return 403`.
Gate(op, tok, role) ==
    IF Authenticate(tok) = {}
    THEN Some(Response(op, 401, AuthError(tok)))
    ELSE IF (CHOOSE u \in Authenticate(tok) : TRUE).role # role
    THEN Some(Response(op, 403, IF role = "admin" THEN "Admin access required"
                                 ELSE "Student access required"))
    ELSE NULL

\* --------------------------------------------------------- event routes
\* createEventCourseSection for each element of the list, in order, until one
\* insert throws: course_id and section_id are NOT NULL columns.  The table is
\* kept as the set of its (eventId, courseId, sectionId) values.
BadAssociation(cs) == cs.courseId = NullStr \/ cs.sectionId = NullStr
FirstBad(list) ==
    IF \E i \in 1..Len(list) : BadAssociation(list[i])
    THEN CHOOSE i \in 1..Len(list) :
            /\ BadAssociation(list[i])
            /\ \A j \in 1..(i - 1) : ~BadAssociation(list[j])
    ELSE Len(list) + 1
InsertedAssociations(eventId, list) ==
    {[eventId |-> eventId, courseId |-> list[i].courseId,
      sectionId |-> list[i].sectionId] : i \in 1..(FirstBad(list) - 1)}
AssociationFails(list) == FirstBad(list) <= Len(list)
NotNullViolation == "null value violates not-null constraint"

\* Faulty variant: when an association insert fails the event and its associations
\* are removed again.
CreateEventCompensated(tok, body) ==
    /\ nextEventId < MaxEvents
    /\ IF Gate("createEvent", tok, "admin") # NULL
       THEN /\ res' = Gate("createEvent", tok, "admin")[1]
            /\ UNCHANGED <<events, eventCourseSections, nextEventId, issued>>
       ELSE IF body.name = NULL
       THEN /\ res' = Response("createEvent", 400, "Invalid input")
            /\ UNCHANGED <<events, eventCourseSections, nextEventId, issued>>
       ELSE LET n == nextEventId + 1
                eventId == Uuidv4(n)
                qrCodeData == JSONstringify(eventId, now)
                event == [id |-> DbUuid(n), name |-> body.name[1],
                          isActive |-> IF body.isActive = NULL THEN TRUE
                                       ELSE body.isActive[1],
                          qrCodeData |-> qrCodeData,
                          qrCode |-> QRCodeToDataURL(qrCodeData)]
                list == IF body.courseSections = NULL THEN <<>>
                        ELSE body.courseSections[1]
            IN  /\ events' = IF AssociationFails(list) THEN events
                              ELSE events \cup {event}
                /\ eventCourseSections' =
                       IF AssociationFails(list) THEN eventCourseSections
                       ELSE eventCourseSections \cup
                               InsertedAssociations(event.id, list)
                /\ res' = IF AssociationFails(list)
                          THEN Response("createEvent", 500, NotNullViolation)
                          ELSE Response("createEvent", 200, "")
                /\ nextEventId' = n
                /\ issued' = issued \cup
                       {[eventId |-> event.id, payload |-> qrCodeData]}
    /\ UNCHANGED catalog
    /\ UNCHANGED <<users, students, attendance, tokens, now, nextStudentId, req,
                   calls, raced>>

\* POST /api/events (routes.ts 386-426).  body = [name, isActive, courseSections].
CreateEvent(tok, body) ==
    /\ nextEventId < MaxEvents
    /\ IF Gate("createEvent", tok, "admin") # NULL
       THEN /\ res' = Gate("createEvent", tok, "admin")[1]
            /\ UNCHANGED <<events, eventCourseSections, nextEventId, issued>>
       ELSE IF body.name = NULL
       THEN /\ res' = Response("createEvent", 400, "Invalid input")
            /\ UNCHANGED <<events, eventCourseSections, nextEventId, issued>>
       ELSE LET n == nextEventId + 1
                eventId == Uuidv4(n)
                qrCodeData == JSONstringify(eventId, now)
                event == [id |-> DbUuid(n), name |-> body.name[1],
                          isActive |-> IF body.isActive = NULL THEN TRUE
                                       ELSE body.isActive[1],
                          qrCodeData |-> qrCodeData,
                          qrCode |-> QRCodeToDataURL(qrCodeData)]
                list == IF body.courseSections = NULL THEN <<>>
                        ELSE body.courseSections[1]
            IN  /\ events' = events \cup {event}
                /\ eventCourseSections' =
                       eventCourseSections \cup InsertedAssociations(event.id, list)
                /\ res' = IF AssociationFails(list)
                          THEN Response("createEvent", 500, NotNullViolation)
                          ELSE Response("createEvent", 200, "")
                /\ nextEventId' = n
                /\ issued' = issued \cup
                       {[eventId |-> event.id, payload |-> qrCodeData]}
    /\ UNCHANGED catalog
    /\ UNCHANGED <<users, students, attendance, tokens, now, nextStudentId, req,
                   calls, raced>>

\* storage.updateEvent: update events set <patch> where id = id.
\* patch = [name, isActive, qrCodeData], each optional.
updateEvent(id, patch) ==
    {IF e.id # id THEN e
     ELSE [e EXCEPT
             !.name = IF patch.name = NULL THEN @ ELSE patch.name[1],
             !.isActive = IF patch.isActive = NULL THEN @ ELSE patch.isActive[1],
             !.qrCodeData = IF patch.qrCodeData = NULL THEN @ ELSE patch.qrCodeData[1],
             !.qrCode = IF patch.qrCodeData = NULL THEN @
                        ELSE QRCodeToDataURL(patch.qrCodeData[1])]
     : e \in events}

\* PUT /api/events/:id (routes.ts 428-454).  body = [name, isActive,
\* courseSections].  An update with no column to set throws before the
\* associations are touched.
UpdateEvent(tok, id, body) ==
    /\ IF Gate("updateEvent", tok, "admin") # NULL
       THEN /\ res' = Gate("updateEvent", tok, "admin")[1]
            /\ UNCHANGED <<events, eventCourseSections>>
       ELSE IF body.name = NULL /\ body.isActive = NULL
       THEN /\ res' = Response("updateEvent", 500, "No values to set")
            /\ UNCHANGED <<events, eventCourseSections>>
       ELSE /\ events' = updateEvent(id, [name |-> body.name,
                                           isActive |-> body.isActive,
                                           qrCodeData |-> NULL])
            /\ IF body.courseSections = NULL
               THEN /\ UNCHANGED eventCourseSections
                    /\ res' = Response("updateEvent", 200, "")
               ELSE /\ eventCourseSections' =
                          deleteEventCourseSections(id) \cup
                          InsertedAssociations(id, body.courseSections[1])
                    /\ res' = IF AssociationFails(body.courseSections[1])
                              THEN Response("updateEvent", 500, NotNullViolation)
                              ELSE Response("updateEvent", 200, "")
    /\ UNCHANGED catalog
    /\ UNCHANGED <<users, students, attendance, tokens, now, nextEventId,
                   nextStudentId, req, issued, calls, raced>>

\* Faulty variant: deleting an event also deletes its attendance rows.
DeleteEventCascade(tok, id) ==
    /\ IF Gate("deleteEvent", tok, "admin") # NULL
       THEN /\ res' = Gate("deleteEvent", tok, "admin")[1]
            /\ UNCHANGED <<events, eventCourseSections, attendance>>
       ELSE /\ eventCourseSections' = deleteEventCourseSections(id)
            /\ events' = deleteEventRows(id)
            /\ attendance' = {r \in attendance : r.eventId # id}
            /\ res' = Response("deleteEvent", 200, "Event deleted")
    /\ UNCHANGED catalog
    /\ UNCHANGED <<users, students, tokens, now, nextEventId, nextStudentId, req,
                   issued, calls, raced>>

\* DELETE /api/events/:id (routes.ts 456-468).
DeleteEvent(tok, id) ==
    /\ IF Gate("deleteEvent", tok, "admin") # NULL
       THEN /\ res' = Gate("deleteEvent", tok, "admin")[1]
            /\ UNCHANGED <<events, eventCourseSections>>
       ELSE /\ eventCourseSections' = deleteEventCourseSections(id)
            /\ events' = deleteEventRows(id)
            /\ res' = Response("deleteEvent", 200, "Event deleted")
    /\ UNCHANGED catalog
    /\ UNCHANGED <<users, students, attendance, tokens, now, nextEventId,
                   nextStudentId, req, issued, calls, raced>>

\* Faulty variant: regenerating the payload also reactivates the event.
RegenerateQrReactivates(tok, id) ==
    /\ IF Gate("regenerateQr", tok, "admin") # NULL
       THEN /\ res' = Gate("regenerateQr", tok, "admin")[1]
            /\ UNCHANGED <<events, issued>>
       ELSE LET qrCodeData == JSONstringify(id, now)
            IN  /\ events' = updateEvent(id, [name |-> NULL, isActive |-> Some(TRUE),
                                               qrCodeData |-> Some(qrCodeData)])
                /\ issued' = issued \cup
                       {[eventId |-> e.id, payload |-> qrCodeData] :
                           e \in {x \in events : x.id = id}}
                /\ res' = Response("regenerateQr", 200, "")
    /\ UNCHANGED catalog
    /\ UNCHANGED <<users, students, eventCourseSections, attendance, tokens, now,
                   nextEventId, nextStudentId, req, calls, raced>>

\* POST /api/events/:id/regenerate-qr (routes.ts 471-485).
RegenerateQr(tok, id) ==
    /\ IF Gate("regenerateQr", tok, "admin") # NULL
       THEN /\ res' = Gate("regenerateQr", tok, "admin")[1]
            /\ UNCHANGED <<events, issued>>
       ELSE LET qrCodeData == JSONstringify(id, now)
            IN  /\ events' = updateEvent(id, [name |-> NULL, isActive |-> NULL,
                                               qrCodeData |-> Some(qrCodeData)])
                /\ issued' = issued \cup
                       {[eventId |-> e.id, payload |-> qrCodeData] :
                           e \in {x \in events : x.id = id}}
                /\ res' = Response("regenerateQr", 200, "")
    /\ UNCHANGED catalog
    /\ UNCHANGED <<users, students, eventCourseSections, attendance, tokens, now,
                   nextEventId, nextStudentId, req, calls, raced>>

\* ------------------------------------------------------- student routes
UniqueViolation == "duplicate key value violates unique constraint"

\* POST /api/students (routes.ts 207-222).  body = [studentId, courseId,
\* sectionId], each optional; insertStudentSchema requires all of them.
CreateStudent(tok, body) ==
    /\ nextStudentId < MaxStudents
    /\ IF Gate("createStudent", tok, "admin") # NULL
       THEN /\ res' = Gate("createStudent", tok, "admin")[1]
            /\ UNCHANGED <<students, nextStudentId>>
       ELSE IF body.studentId = NULL \/ body.courseId = NULL \/ body.sectionId = NULL
       THEN /\ res' = Response("createStudent", 400, "Invalid input")
            /\ UNCHANGED <<students, nextStudentId>>
       ELSE IF getStudentByStudentId(body.studentId[1]) # {}
       THEN /\ res' = Response("createStudent", 500, UniqueViolation)
            /\ UNCHANGED <<students, nextStudentId>>
       ELSE /\ students' = students \cup
                   {[id |-> nextStudentId + 1, studentId |-> body.studentId[1],
                     courseId |-> body.courseId[1], sectionId |-> body.sectionId[1],
                     age |-> NULL, email |-> NullStr, birthday |-> NullStr,
                     profilePicture |-> NullStr]}
            /\ nextStudentId' = nextStudentId + 1
            /\ res' = Response("createStudent", 200, "")
    /\ UNCHANGED catalog
    /\ UNCHANGED <<users, events, eventCourseSections, attendance, tokens, now,
                   nextEventId, req, issued, calls, raced>>

\* storage.updateStudent: update students set <patch> where id = id.
\* patch = [studentId, courseId, sectionId, age, email, birthday,
\* profilePicture], each optional.
updateStudent(id, patch) ==
    {IF s.id # id THEN s
     ELSE [s EXCEPT
             !.studentId = IF patch.studentId = NULL THEN @ ELSE patch.studentId[1],
             !.courseId = IF patch.courseId = NULL THEN @ ELSE patch.courseId[1],
             !.sectionId = IF patch.sectionId = NULL THEN @ ELSE patch.sectionId[1],
             !.age = IF patch.age = NULL THEN @ ELSE patch.age,
             !.email = IF patch.email = NULL THEN @ ELSE patch.email[1],
             !.birthday = IF patch.birthday = NULL THEN @ ELSE patch.birthday[1],
             !.profilePicture = IF patch.profilePicture = NULL THEN @
                                ELSE patch.profilePicture[1]]
     : s \in students}

AdminPatch(body) ==
    [studentId |-> body.studentId, courseId |-> body.courseId,
     sectionId |-> body.sectionId, age |-> NULL, email |-> NULL,
     birthday |-> NULL, profilePicture |-> NULL]

\* PUT /api/students/:id (routes.ts 224-235).
UpdateStudent(tok, id, body) ==
    /\ IF Gate("updateStudent", tok, "admin") # NULL
       THEN /\ res' = Gate("updateStudent", tok, "admin")[1]
            /\ UNCHANGED students
       ELSE IF body.studentId = NULL /\ body.courseId = NULL /\ body.sectionId = NULL
       THEN /\ res' = Response("updateStudent", 500, "No values to set")
            /\ UNCHANGED students
       ELSE IF /\ body.studentId # NULL
               /\ \E s \in students : s.id = id
               /\ \E s \in students : s.id # id /\ s.studentId = body.studentId[1]
       THEN /\ res' = Response("updateStudent", 500, UniqueViolation)
            /\ UNCHANGED students
       ELSE /\ students' = updateStudent(id, AdminPatch(body))
            /\ res' = Response("updateStudent", 200, "")
    /\ UNCHANGED catalog
    /\ UNCHANGED <<users, events, eventCourseSections, attendance, tokens, now,
                   nextEventId, nextStudentId, req, issued, calls, raced>>

\* DELETE /api/students/:id (routes.ts 237-248).
DeleteStudent(tok, id) ==
    /\ IF Gate("deleteStudent", tok, "admin") # NULL
       THEN /\ res' = Gate("deleteStudent", tok, "admin")[1]
            /\ UNCHANGED students
       ELSE /\ students' = deleteStudentRows(id)
            /\ res' = Response("deleteStudent", 200, "Student deleted")
    /\ UNCHANGED catalog
    /\ UNCHANGED <<users, events, eventCourseSections, attendance, tokens, now,
                   nextEventId, nextStudentId, req, issued, calls, raced>>

\* -------------------------------------------------- GET /api/student/events
\* storage.getAllEvents: every event with its association rows.
getAllEvents ==
    {[event |-> e, eventCourseSections |-> getEventCourseSections(e.id)] :
        e \in events}

\* Faulty variant: an association that matches the course or the section is enough.
studentEventsEitherMatches(allEvents, student) ==
    {x \in allEvents :
        \E ecs \in x.eventCourseSections :
            ecs.courseId = student.courseId \/ ecs.sectionId = student.sectionId}

\* Faulty variant: inactive events are left out of the listing.
studentEventsActiveOnly(allEvents, student) ==
    {x \in allEvents :
        /\ x.event.isActive
        /\ \E ecs \in x.eventCourseSections :
              ecs.courseId = student.courseId /\ ecs.sectionId = student.sectionId}

\* routes.ts 624-628: allEvents.filter(event => event.eventCourseSections.some(
\* ecs => ecs.courseId === student.courseId && ecs.sectionId === student.sectionId)).
studentEvents(allEvents, student) ==
    {x \in allEvents :
        \E ecs \in x.eventCourseSections :
            ecs.courseId = student.courseId /\ ecs.sectionId = student.sectionId}

ListingResponse(list) ==
    [op |-> "studentEvents", status |-> 200, message |-> "", events |-> list]

\* GET /api/student/events (routes.ts 614-642).  When the user's student row
\* is gone, `student` is undefined and the filter throws as soon as it looks
\* at an association row.
StudentEvents(tok) ==
    /\ IF Gate("studentEvents", tok, "student") # NULL
       THEN res' = Gate("studentEvents", tok, "student")[1]
       ELSE LET user == CHOOSE u \in Authenticate(tok) : TRUE
                found == getStudentByStudentId(user.studentId)
            IN  IF found = {}
                THEN res' = IF \E x \in getAllEvents : x.eventCourseSections # {}
                            THEN Response("studentEvents", 500,
                                          "Cannot read properties of undefined")
                            ELSE ListingResponse({})
                ELSE LET student == CHOOSE s \in found : TRUE
                         visible == studentEvents(getAllEvents, student)
                         ids == {x.event.id : x \in visible}
                     IN  \E att \in [ids -> SUBSET attendance] :
                            /\ \A id \in ids :
                                  att[id] \in FirstRowOf(getAttendance(id, student.id))
                            /\ res' = ListingResponse(
                                   {[id |-> x.event.id, isActive |-> x.event.isActive,
                                     attendance |-> att[x.event.id]] : x \in visible})
    /\ UNCHANGED catalog
    /\ UNCHANGED <<tables, tokens, now, nextEventId, nextStudentId, req, issued,
                   calls, raced>>

\* ------------------------------------------------------------ auth routes
\* z.string().email(): the strings of the inputs that it rejects.
MalformedEmails == {"", "not-an-email"}
ZodEmail(s) == s \notin MalformedEmails

\* z.string().regex(/^\d+$/): one or more characters, all of them digits.
Digits == {"0", "1", "2", "3", "4", "5", "6", "7", "8", "9"}
ZodDigits(s) == Len(s) >= 1 /\ \A i \in 1..Len(s) : s[i] \in Digits

\* parseInt of a string of digits: leading zeros do not count.
RECURSIVE StripZeros(_)
StripZeros(s) ==
    IF Len(s) > 1 /\ s[1] = "0" THEN StripZeros(Tail(s)) ELSE s

DigitValue(c) == CHOOSE n \in 0..9 : ToString(n) = c

\* The largest value of an `integer` column, as decimal digits.
Int4Max == <<"2", "1", "4", "7", "4", "8", "3", "6", "4", "7">>

RECURSIVE DigitsLeq(_, _)
DigitsLeq(a, b) ==
    IF a = <<>> THEN TRUE
    ELSE IF DigitValue(a[1]) # DigitValue(b[1])
    THEN DigitValue(a[1]) < DigitValue(b[1])
    ELSE DigitsLeq(Tail(a), Tail(b))

\* Whether parseInt(s) can be stored in an `integer` column.
FitsInteger(s) ==
    \/ Len(StripZeros(s)) < Len(Int4Max)
    \/ Len(StripZeros(s)) = Len(Int4Max) /\ DigitsLeq(StripZeros(s), Int4Max)

RECURSIVE DecimalValue(_)
DecimalValue(s) ==
    IF s = <<>> THEN 0
    ELSE 10 * DecimalValue(SubSeq(s, 1, Len(s) - 1)) + DigitValue(s[Len(s)])

ParseInt(s) == DecimalValue(StripZeros(s))
IntegerOutOfRange == "value is out of range for type integer"

\* loginSchema (routes.ts 90-93).  body = [email, password].
LoginValid(body) == ZodEmail(body.email) /\ Len(body.password) >= 1

\* registerSchema (routes.ts 95-101).  body = [studentId, email, password,
\* age, birthday].
RegisterValid(body) ==
    /\ body.studentId # ""
    /\ ZodEmail(body.email)
    /\ Len(body.password) >= 6
    /\ ZodDigits(body.age)

\* Faulty variant: login tells an unknown email from a wrong password.
LoginOutcomeTellsUnknown(body) ==
    IF ~LoginValid(body)
    THEN [status |-> 400, message |-> "Invalid input", user |-> {}]
    ELSE IF getUserByEmail(body.email) = {}
    THEN [status |-> 404, message |-> "User not found", user |-> {}]
    ELSE IF \A u \in getUserByEmail(body.email) :
               ~BcryptCompare(body.password, u.password)
    THEN [status |-> 401, message |-> "Invalid credentials", user |-> {}]
    ELSE [status |-> 200, message |-> "", user |-> getUserByEmail(body.email)]

\* routes.ts 105-110: validation, lookup by email, password comparison.
LoginOutcome(body) ==
    IF ~LoginValid(body)
    THEN [status |-> 400, message |-> "Invalid input", user |-> {}]
    ELSE IF \/ getUserByEmail(body.email) = {}
            \/ \A u \in getUserByEmail(body.email) :
                  ~BcryptCompare(body.password, u.password)
    THEN [status |-> 401, message |-> "Invalid credentials", user |-> {}]
    ELSE [status |-> 200, message |-> "", user |-> getUserByEmail(body.email)]

\* POST /api/auth/login (routes.ts 103-129).
Login(body) ==
    /\ LET o == LoginOutcome(body)
       IN  IF o.status # 200
           THEN /\ res' = Response("login", o.status, o.message)
                /\ UNCHANGED tokens
           ELSE LET user == CHOOSE u \in o.user : TRUE
                IN  /\ tokens' = tokens \cup {user.id}
                    /\ res' = [op |-> "login", status |-> 200, message |-> "",
                               token |-> JwtSign(user.id),
                               user |-> [id |-> user.id, email |-> user.email,
                                         role |-> user.role,
                                         studentId |-> user.studentId]]
    /\ UNCHANGED catalog
    /\ UNCHANGED <<tables, now, nextEventId, nextStudentId, req, issued, calls, raced>>

\* storage.createUser: users.id defaults to a fresh uuid (users are never
\* deleted, so the number of rows names no existing row).
createUser(email, password, role, studentId) ==
    [id |-> Cardinality(users) + 1, email |-> email, password |-> password,
     role |-> role, studentId |-> studentId]

\* POST /api/auth/register up to the email check (routes.ts 131-147):
\* validation, `await storage.getStudentByStudentId`, `await
\* storage.getUserByEmail`.  The handler then awaits the hash and the writes.
RegisterLookup(p, body) ==
    /\ req[p].pc = "idle"
    /\ IF ~RegisterValid(body)
       THEN /\ res' = Response("register", 400, "Invalid input")
            /\ UNCHANGED req
       ELSE IF getStudentByStudentId(body.studentId) = {}
       THEN /\ res' = Response("register", 404, "Student ID not found in system")
            /\ UNCHANGED req
       ELSE IF getUserByEmail(body.email) # {}
       THEN /\ res' = Response("register", 400, "Email already registered")
            /\ UNCHANGED req
       ELSE /\ req' = [req EXCEPT ![p] =
                         [pc |-> "register", body |-> body,
                          student |-> CHOOSE s \in getStudentByStudentId(body.studentId) : TRUE]]
            /\ UNCHANGED res
    /\ UNCHANGED catalog
    /\ UNCHANGED <<tables, tokens, now, nextEventId, nextStudentId, issued, calls,
                   raced>>

\* Faulty variant: users.email carries no unique constraint.
RegisterWriteNoUnique(p) ==
    /\ req[p].pc = "register"
    /\ LET body == req[p].body
           hashedPassword == BcryptHash(body.password)
           updated == updateStudent(req[p].student.id,
                         [studentId |-> NULL, courseId |-> NULL, sectionId |-> NULL,
                          age |-> Some(ParseInt(body.age)), email |-> Some(body.email),
                          birthday |-> Some(body.birthday),
                          profilePicture |-> Some("")])
       IN  IF ~FitsInteger(body.age)
           THEN /\ res' = Response("register", 500, IntegerOutOfRange)
                /\ UNCHANGED <<students, users>>
           ELSE /\ students' = updated
                /\ users' = users \cup
                      {createUser(body.email, hashedPassword, "student", body.studentId)}
                /\ res' = Response("register", 200, "Registration successful")
    /\ req' = [req EXCEPT ![p] = Idle]
    /\ UNCHANGED catalog
    /\ UNCHANGED <<events, eventCourseSections, attendance, tokens, now,
                   nextEventId, nextStudentId, issued, calls, raced>>

\* routes.ts 149-172: bcrypt.hash, storage.updateStudent, storage.createUser,
\* 'Registration successful'; a statement that throws ends the handler with 500.
RegisterWrite(p) ==
    /\ req[p].pc = "register"
    /\ LET body == req[p].body
           hashedPassword == BcryptHash(body.password)
           updated == updateStudent(req[p].student.id,
                         [studentId |-> NULL, courseId |-> NULL, sectionId |-> NULL,
                          age |-> Some(ParseInt(body.age)), email |-> Some(body.email),
                          birthday |-> Some(body.birthday),
                          profilePicture |-> Some("")])
       IN  IF ~FitsInteger(body.age)
           THEN /\ res' = Response("register", 500, IntegerOutOfRange)
                /\ UNCHANGED <<students, users>>
           ELSE IF getUserByEmail(body.email) # {}
           THEN /\ students' = updated
                /\ res' = Response("register", 500, UniqueViolation)
                /\ UNCHANGED users
           ELSE /\ students' = updated
                /\ users' = users \cup
                      {createUser(body.email, hashedPassword, "student", body.studentId)}
                /\ res' = Response("register", 200, "Registration successful")
    /\ req' = [req EXCEPT ![p] = Idle]
    /\ UNCHANGED catalog
    /\ UNCHANGED <<events, eventCourseSections, attendance, tokens, now,
                   nextEventId, nextStudentId, issued, calls, raced>>

\* ------------------------------------------------ course and section routes
\* gen_random_uuid() default of courses.id, sections.id and system_settings.id.
RowIds == <<"N1", "N2", "N3", "N4", "N5", "N6">>
RowUuid(n) == RowIds[n]

\* GET routes that only pass authMiddleware: /api/students, /api/courses,
\* /api/sections, /api/events (routes.ts 198, 271, 324, 377).
ListingOf(op) ==
    CASE op = "getStudents" -> students
      [] op = "getCourses" -> courses
      [] op = "getSections" -> sections
      [] op = "getEvents" -> getAllEvents
ListOps == {"getStudents", "getCourses", "getSections", "getEvents"}
GetList(op, tok) ==
    /\ res' = IF Authenticate(tok) = {}
              THEN Response(op, 401, AuthError(tok))
              ELSE [op |-> op, status |-> 200, message |-> "", rows |-> ListingOf(op)]
    /\ UNCHANGED catalog
    /\ UNCHANGED <<tables, tokens, now, nextEventId, nextStudentId, req, issued,
                   calls, raced>>

\* POST /api/courses (routes.ts 280-295).  body = [name], optional.
CreateCourse(tok, body) ==
    /\ nextRowId < MaxRows
    /\ IF Gate("createCourse", tok, "admin") # NULL
       THEN /\ res' = Gate("createCourse", tok, "admin")[1]
            /\ UNCHANGED <<courses, nextRowId>>
       ELSE IF body.name = NULL
       THEN /\ res' = Response("createCourse", 400, "Invalid input")
            /\ UNCHANGED <<courses, nextRowId>>
       ELSE /\ courses' = courses \cup
                   {[id |-> RowUuid(nextRowId + 1), name |-> body.name[1]]}
            /\ nextRowId' = nextRowId + 1
            /\ res' = Response("createCourse", 200, "")
    /\ UNCHANGED <<tables, tokens, now, nextEventId, nextStudentId, req, issued,
                   calls, raced, sections, systemSettings>>

\* PUT /api/courses/:id (routes.ts 297-308): update courses set <body>.
UpdateCourse(tok, id, body) ==
    /\ IF Gate("updateCourse", tok, "admin") # NULL
       THEN /\ res' = Gate("updateCourse", tok, "admin")[1]
            /\ UNCHANGED courses
       ELSE IF body.name = NULL
       THEN /\ res' = Response("updateCourse", 500, "No values to set")
            /\ UNCHANGED courses
       ELSE /\ courses' = {IF c.id = id THEN [c EXCEPT !.name = body.name[1]] ELSE c
                           : c \in courses}
            /\ res' = Response("updateCourse", 200, "")
    /\ UNCHANGED <<tables, tokens, now, nextEventId, nextStudentId, req, issued,
                   calls, raced, sections, systemSettings, nextRowId>>

\* DELETE /api/courses/:id (routes.ts 310-321).
DeleteCourse(tok, id) ==
    /\ IF Gate("deleteCourse", tok, "admin") # NULL
       THEN /\ res' = Gate("deleteCourse", tok, "admin")[1]
            /\ UNCHANGED courses
       ELSE /\ courses' = {c \in courses : c.id # id}
            /\ res' = Response("deleteCourse", 200, "Course deleted")
    /\ UNCHANGED <<tables, tokens, now, nextEventId, nextStudentId, req, issued,
                   calls, raced, sections, systemSettings, nextRowId>>

\* POST /api/sections (routes.ts 333-348).  body = [courseId, name], optional.
CreateSection(tok, body) ==
    /\ nextRowId < MaxRows
    /\ IF Gate("createSection", tok, "admin") # NULL
       THEN /\ res' = Gate("createSection", tok, "admin")[1]
            /\ UNCHANGED <<sections, nextRowId>>
       ELSE IF body.name = NULL \/ body.courseId = NULL
       THEN /\ res' = Response("createSection", 400, "Invalid input")
            /\ UNCHANGED <<sections, nextRowId>>
       ELSE /\ sections' = sections \cup
                   {[id |-> RowUuid(nextRowId + 1), courseId |-> body.courseId[1],
                     name |-> body.name[1]]}
            /\ nextRowId' = nextRowId + 1
            /\ res' = Response("createSection", 200, "")
    /\ UNCHANGED <<tables, tokens, now, nextEventId, nextStudentId, req, issued,
                   calls, raced, courses, systemSettings>>

\* PUT /api/sections/:id (routes.ts 350-361).
UpdateSection(tok, id, body) ==
    /\ IF Gate("updateSection", tok, "admin") # NULL
       THEN /\ res' = Gate("updateSection", tok, "admin")[1]
            /\ UNCHANGED sections
       ELSE IF body.name = NULL /\ body.courseId = NULL
       THEN /\ res' = Response("updateSection", 500, "No values to set")
            /\ UNCHANGED sections
       ELSE /\ sections' =
                  {IF x.id # id THEN x
                   ELSE [x EXCEPT
                           !.name = IF body.name = NULL THEN @ ELSE body.name[1],
                           !.courseId = IF body.courseId = NULL THEN @
                                        ELSE body.courseId[1]]
                   : x \in sections}
            /\ res' = Response("updateSection", 200, "")
    /\ UNCHANGED <<tables, tokens, now, nextEventId, nextStudentId, req, issued,
                   calls, raced, courses, systemSettings, nextRowId>>

\* DELETE /api/sections/:id (routes.ts 363-374).
DeleteSection(tok, id) ==
    /\ IF Gate("deleteSection", tok, "admin") # NULL
       THEN /\ res' = Gate("deleteSection", tok, "admin")[1]
            /\ UNCHANGED sections
       ELSE /\ sections' = {x \in sections : x.id # id}
            /\ res' = Response("deleteSection", 200, "Section deleted")
    /\ UNCHANGED <<tables, tokens, now, nextEventId, nextStudentId, req, issued,
                   calls, raced, courses, systemSettings, nextRowId>>

\* ------------------------------------------------- POST /api/students/import
\* for (const student of students): rows with every field set are inserted one
\* after the other; an insert that violates the unique student_id throws and
\* ends the loop.  Gives the table, the id counter and whether it threw.
RECURSIVE ImportRows(_, _, _)
ImportRows(list, table, next) ==
    IF list = <<>> THEN [students |-> table, next |-> next, threw |-> FALSE]
    ELSE LET x == Head(list)
         IN  IF x.studentId = NULL \/ x.courseId = NULL \/ x.sectionId = NULL
             THEN ImportRows(Tail(list), table, next)
             ELSE IF \E s \in table : s.studentId = x.studentId[1]
             THEN [students |-> table, next |-> next, threw |-> TRUE]
             ELSE ImportRows(Tail(list),
                     table \cup {[id |-> next + 1, studentId |-> x.studentId[1],
                                  courseId |-> x.courseId[1],
                                  sectionId |-> x.sectionId[1],
                                  age |-> NULL, email |-> NullStr,
                                  birthday |-> NullStr, profilePicture |-> NullStr]},
                     next + 1)

\* POST /api/students/import (routes.ts 251-268).  list = req.body.students.
ImportStudents(tok, list) ==
    /\ nextStudentId + Len(list) <= MaxStudents
    /\ IF Gate("importStudents", tok, "admin") # NULL
       THEN /\ res' = Gate("importStudents", tok, "admin")[1]
            /\ UNCHANGED <<students, nextStudentId>>
       ELSE LET r == ImportRows(list, students, nextStudentId)
            IN  /\ students' = r.students
                /\ nextStudentId' = r.next
                /\ res' = IF r.threw
                          THEN Response("importStudents", 500, UniqueViolation)
                          ELSE Response("importStudents", 200, "Import successful")
    /\ UNCHANGED catalog
    /\ UNCHANGED <<users, events, eventCourseSections, attendance, tokens, now,
                   nextEventId, req, issued, calls, raced>>

\* ------------------------------------------------------------ admin stats
\* GET /api/admin/stats (routes.ts 645-664).
AdminStats(tok) ==
    /\ res' = IF Gate("adminStats", tok, "admin") # NULL
              THEN Gate("adminStats", tok, "admin")[1]
              ELSE [op |-> "adminStats", status |-> 200, message |-> "",
                    totalStudents |-> Cardinality(students),
                    activeEvents |-> Cardinality({e \in events : e.isActive}),
                    totalAttendance |-> 0,
                    totalCourses |-> Cardinality(courses)]
    /\ UNCHANGED catalog
    /\ UNCHANGED <<tables, tokens, now, nextEventId, nextStudentId, req, issued,
                   calls, raced>>

\* ------------------------------------------------------- /api/student/...
UndefinedStudent == "Cannot read properties of undefined"

\* GET /api/student/profile (routes.ts 548-559): the student row, or nothing.
StudentProfile(tok) ==
    /\ res' = IF Gate("studentProfile", tok, "student") # NULL
              THEN Gate("studentProfile", tok, "student")[1]
              ELSE [op |-> "studentProfile", status |-> 200, message |-> "",
                    rows |-> getStudentByStudentId(
                                (CHOOSE u \in Authenticate(tok) : TRUE).studentId)]
    /\ UNCHANGED catalog
    /\ UNCHANGED <<tables, tokens, now, nextEventId, nextStudentId, req, issued,
                   calls, raced>>

\* PUT /api/student/profile (routes.ts 561-586).  body = [age, email,
\* birthday]; age is a string of digits or absent (parseInt gives NaN, which
\* the integer column rejects), email and birthday are optional.
UpdateStudentProfile(tok, body) ==
    /\ IF Gate("updateProfile", tok, "student") # NULL
       THEN /\ res' = Gate("updateProfile", tok, "student")[1]
            /\ UNCHANGED students
       ELSE LET user == CHOOSE u \in Authenticate(tok) : TRUE
                found == getStudentByStudentId(user.studentId)
            IN  IF found = {}
                THEN /\ res' = Response("updateProfile", 500, UndefinedStudent)
                     /\ UNCHANGED students
                ELSE IF body.age = NULL
                THEN /\ res' = Response("updateProfile", 500,
                                        "invalid input syntax for type integer")
                     /\ UNCHANGED students
                ELSE IF ~FitsInteger(body.age[1])
                THEN /\ res' = Response("updateProfile", 500, IntegerOutOfRange)
                     /\ UNCHANGED students
                ELSE /\ students' = updateStudent((CHOOSE s \in found : TRUE).id,
                            [studentId |-> NULL, courseId |-> NULL, sectionId |-> NULL,
                             age |-> Some(ParseInt(body.age[1])), email |-> body.email,
                             birthday |-> body.birthday, profilePicture |-> NULL])
                     /\ res' = Response("updateProfile", 200, "")
    /\ UNCHANGED catalog
    /\ UNCHANGED <<users, events, eventCourseSections, attendance, tokens, now,
                   nextEventId, nextStudentId, req, issued, calls, raced>>

\* storage.getAllAttendanceForStudent: the student's attendance rows.
getAllAttendanceForStudent(studentId) == {r \in attendance : r.studentId = studentId}

\* GET /api/student/stats (routes.ts 588-612).
StudentStats(tok) ==
    /\ res' = IF Gate("studentStats", tok, "student") # NULL
              THEN Gate("studentStats", tok, "student")[1]
              ELSE LET user == CHOOSE u \in Authenticate(tok) : TRUE
                       found == getStudentByStudentId(user.studentId)
                   IN  IF found = {}
                       THEN Response("studentStats", 500, UndefinedStudent)
                       ELSE [op |-> "studentStats", status |-> 200, message |-> "",
                             totalAttendance |->
                                Cardinality({r \in getAllAttendanceForStudent(
                                                (CHOOSE s \in found : TRUE).id) :
                                                r.timeIn # NULL})]
    /\ UNCHANGED catalog
    /\ UNCHANGED <<tables, tokens, now, nextEventId, nextStudentId, req, issued,
                   calls, raced>>

\* --------------------------------------------------------- /api/settings
\* storage.getSystemSettings: select ... limit 1, any one row of the table.
getSystemSettings == FirstRowOf(systemSettings)

\* GET /api/settings (routes.ts 667-674): the row, or the defaults.
DefaultSettings == [systemName |-> "Attendance System", qrCodeEnabled |-> TRUE]
GetSettings(tok) ==
    /\ IF Authenticate(tok) = {}
       THEN res' = Response("getSettings", 401, AuthError(tok))
       ELSE \E found \in getSystemSettings :
               res' = [op |-> "getSettings", status |-> 200, message |-> "",
                       rows |-> IF found = {} THEN {DefaultSettings} ELSE found]
    /\ UNCHANGED catalog
    /\ UNCHANGED <<tables, tokens, now, nextEventId, nextStudentId, req, issued,
                   calls, raced>>

\* PUT /api/settings up to `const existing = await this.getSystemSettings()`
\* (routes.ts 676-683, storage.ts 347-348).  body = [systemName,
\* qrCodeEnabled], each optional (insertSystemSettingsSchema.partial()).
SettingsLookup(p, tok, body) ==
    /\ req[p].pc = "idle"
    /\ IF Gate("updateSettings", tok, "admin") # NULL
       THEN /\ res' = Gate("updateSettings", tok, "admin")[1]
            /\ UNCHANGED req
       ELSE /\ \E existing \in getSystemSettings :
                  req' = [req EXCEPT ![p] =
                            [pc |-> "settings", body |-> body, existing |-> existing]]
            /\ UNCHANGED res
    /\ UNCHANGED catalog
    /\ UNCHANGED <<tables, tokens, now, nextEventId, nextStudentId, issued, calls,
                   raced>>

\* Faulty variant: the write inserts a row whether or not one was found.
SettingsWriteAlwaysInserts(p) ==
    /\ req[p].pc = "settings"
    /\ systemSettings' = systemSettings \cup
          {[id |-> RowUuid(nextRowId + 1),
            systemName |-> IF req[p].body.systemName = NULL
                           THEN DefaultSettings.systemName
                           ELSE req[p].body.systemName[1],
            qrCodeEnabled |-> IF req[p].body.qrCodeEnabled = NULL
                              THEN DefaultSettings.qrCodeEnabled
                              ELSE req[p].body.qrCodeEnabled[1],
            updatedAt |-> now]}
    /\ nextRowId' = nextRowId + 1
    /\ res' = Response("updateSettings", 200, "")
    /\ req' = [req EXCEPT ![p] = Idle]
    /\ UNCHANGED <<tables, tokens, now, nextEventId, nextStudentId, issued, calls,
                   raced, courses, sections>>

\* storage.ts 350-360: update the row found, or insert a row with the column
\* defaults for the fields the body leaves out.
SettingsWrite(p) ==
    /\ req[p].pc = "settings"
    /\ LET body == req[p].body
       IN  IF req[p].existing # {}
           THEN LET existing == CHOOSE x \in req[p].existing : TRUE
                IN  /\ systemSettings' =
                          {IF x.id # existing.id THEN x
                           ELSE [x EXCEPT
                                   !.systemName = IF body.systemName = NULL THEN @
                                                  ELSE body.systemName[1],
                                   !.qrCodeEnabled = IF body.qrCodeEnabled = NULL THEN @
                                                     ELSE body.qrCodeEnabled[1],
                                   !.updatedAt = now]
                           : x \in systemSettings}
                    /\ UNCHANGED nextRowId
           ELSE /\ systemSettings' = systemSettings \cup
                      {[id |-> RowUuid(nextRowId + 1),
                        systemName |-> IF body.systemName = NULL
                                       THEN DefaultSettings.systemName
                                       ELSE body.systemName[1],
                        qrCodeEnabled |-> IF body.qrCodeEnabled = NULL
                                          THEN DefaultSettings.qrCodeEnabled
                                          ELSE body.qrCodeEnabled[1],
                        updatedAt |-> now]}
                /\ nextRowId' = nextRowId + 1
    /\ res' = Response("updateSettings", 200, "")
    /\ req' = [req EXCEPT ![p] = Idle]
    /\ UNCHANGED <<tables, tokens, now, nextEventId, nextStudentId, issued, calls,
                   raced, courses, sections>>

\* ----------------------------------------------------------------- Init
\* The database after the seed script and the first uses of the system: the
\* seeded admin account; two students entered by the admin, S1 in (CS, A) and
\* S2 in (CS, B); the account that S1 registered; both users logged in.
StudentEmail == "s1@school.edu"
StudentPassword == <<"s", "e", "c", "r", "e", "t">>

Init ==
    /\ users = {[id |-> 1, email |-> AdminEmail, password |-> BcryptHash(AdminPassword),
                 role |-> "admin", studentId |-> NullStr],
                [id |-> 2, email |-> StudentEmail,
                 password |-> BcryptHash(StudentPassword),
                 role |-> "student", studentId |-> "S1"]}
    /\ students = {[id |-> 1, studentId |-> "S1", courseId |-> "CS", sectionId |-> "A",
                    age |-> Some(20), email |-> StudentEmail,
                    birthday |-> "2005-01-01", profilePicture |-> ""],
                   [id |-> 2, studentId |-> "S2", courseId |-> "CS", sectionId |-> "B",
                    age |-> NULL, email |-> NullStr, birthday |-> NullStr,
                    profilePicture |-> NullStr]}
    /\ events = {}
    /\ eventCourseSections = {}
    /\ attendance = {}
    /\ tokens = {1, 2}
    /\ now = 1
    /\ nextEventId = 0
    /\ nextStudentId = 2
    /\ req = [p \in Procs |-> Idle]
    /\ res = Response("none", 0, "")
    /\ issued = {}
    /\ calls = [pair \in {} |-> 0]
    /\ raced = {}
    /\ courses = {[id |-> "CS", name |-> "Computer Science"],
                  [id |-> "BUS", name |-> "Business Administration"]}
    /\ sections = {[id |-> "A", courseId |-> "CS", name |-> "Section A"],
                   [id |-> "B", courseId |-> "CS", name |-> "Section B"],
                   [id |-> "C", courseId |-> "BUS", name |-> "Section 1"]}
    /\ systemSettings = {}
    /\ nextRowId = 0

\* --------------------------------------------------- inputs of requests
TokenInputs == {NULL, Some(ForgedToken)} \cup {Some(JwtSign(u)) : u \in tokens}
UserTokens == {Some(JwtSign(u)) : u \in tokens}
AdminTokens == {Some(JwtSign(u.id)) : u \in {x \in users : x.id \in tokens /\ x.role = "admin"}}

EventIdInputs == {DbUuid(n) : n \in 1..nextEventId}
StudentIdInputs == 1..nextStudentId

\* The payloads handed out for an event: the one it was created with and
\* every regenerated one, the one it holds now included.
PayloadsOf(eventId) ==
    {x.payload : x \in {y \in issued : y.eventId = eventId}}
    \cup {e.qrCodeData : e \in {y \in events : y.id = eventId}}

CheckinBody(q, s, e) == [qrCodeData |-> q, studentId |-> s, eventId |-> e]

\* ------------------------------------------------ the attendance ledger
\* Check-in requests of the two logged-in users and of callers without a valid
\* token, served concurrently, while time passes.  The handler never reads the
\* events table, so the event ids and payloads are whatever the client sends.
ClientEventIds == {DbUuid(1), Uuidv4(1)}
ClientBodies ==
    {CheckinBody(Some(q), s, NULL) :
        q \in {JSONstringify(id, 1) : id \in ClientEventIds} \cup {NotJson},
        s \in {NULL, Some("S2")}}
    \cup {CheckinBody(NULL, s, e) :
            s \in {NULL, Some("S1"), Some("S2"), Some("S3")},
            e \in {NULL} \cup {Some(id) : id \in ClientEventIds}}

Next ==
    \/ \E p \in Procs, tok \in TokenInputs, body \in ClientBodies :
          CheckinLookup(p, tok, body)
    \/ \E p \in Procs : CheckinWrite(p)
    \/ Tick

Spec == Init /\ [][Next]_vars

\* ---------------------------------------------- claims about the ledger
PairOf(l) == <<l.eventId, l.studentId>>
RowsOf(table, pair) ==
    {r \in table : r.eventId = pair[1] /\ r.studentId = pair[2]}
CheckinLookupStep(p) == req[p].pc = "idle" /\ req'[p].pc = "checkin"
CheckinWriteStep(p) == req[p].pc = "checkin" /\ req'[p].pc = "idle"

\* C1: on a pair whose check-in calls never overlapped, the first call creates
\* the row and answers "in" with timeOut unset; the second answers "out" with
\* timeOut set and the timeIn the first call stored; every later call answers
\* 400 'Attendance already complete' and changes no row.
C1_ThreeCheckins ==
    [][\A p \in Procs :
         (CheckinWriteStep(p) /\ PairOf(req[p]) \notin raced) =>
            LET pair == PairOf(req[p])
                before == RowsOf(attendance, pair)
                after == RowsOf(attendance', pair)
            IN  /\ attendance' \ after = attendance \ before
                /\ CASE CallsOf(pair) = 0 ->
                          /\ before = {}
                          /\ Cardinality(after) = 1
                          /\ res'.status = 200 /\ res'.type = "in"
                          /\ res'.attendance = after
                          /\ \A r \in after : r.timeIn # NULL /\ r.timeOut = NULL
                     [] CallsOf(pair) = 1 ->
                          /\ Cardinality(after) = 1
                          /\ res'.status = 200 /\ res'.type = "out"
                          /\ res'.attendance = after
                          /\ \A r \in after :
                                /\ r.timeOut # NULL
                                /\ \E b \in before :
                                      /\ b.id = r.id /\ b.timeOut = NULL
                                      /\ b.timeIn = r.timeIn
                     [] OTHER ->
                          /\ res'.status = 400
                          /\ res'.message = "Attendance already complete"
                          /\ attendance' = attendance]_vars

\* A third call on a pair that never raced was refused.
C1_Witness ==
    /\ res.op = "checkin" /\ res.status = 400
    /\ res.message = "Attendance already complete"
    /\ raced = {}
    /\ \E pair \in DOMAIN calls : calls[pair] = 3

\* C2: at most one attendance row per (eventId, studentId), also when two
\* check-in calls for the same new pair interleave.
C2_OneRowPerPair ==
    \A r1, r2 \in attendance :
        (r1.eventId = r2.eventId /\ r1.studentId = r2.studentId) => r1 = r2

\* C4: a row whose timeOut is set is never written again, by any check-in
\* call, concurrent or not.
C4_ImmutableOnceComplete ==
    [][\A r \in attendance : r.timeOut # NULL => r \in attendance']_vars

C20_RacedCreateBecomesUpdate ==
    [][\A p \in Procs :
          (/\ CheckinWriteStep(p)
           /\ req[p].found = {}
           /\ getAttendance(req[p].eventId, req[p].studentId) # {}) =>
              /\ res'.status = 200 /\ res'.type = "out"
              /\ {r.id : r \in attendance'} = {r.id : r \in attendance}
              /\ \A r \in getAttendance(req[p].eventId, req[p].studentId)' :
                    r.timeOut # NULL]_vars

\* C24: every attendance row that the write of a check-in called by a
\* student principal creates or changes is a row of the student whose
\* studentId the principal's account carries, on either path.
C24_StudentChecksInSelfOnly ==
    [][\A p \in Procs :
          CheckinWriteStep(p) =>
              \A u \in users :
                  (u.id = req[p].user /\ u.role = "student") =>
                      \A r \in attendance' \ attendance :
                          \E s \in getStudentByStudentId(u.studentId) :
                              r.studentId = s.id]_vars

\* ------------------------------------------------------ the whole system
\* Check-ins by both paths (the student scans, the admin enters the ids)
\* together with the admin's event and student operations (the clock stands
\* still).
QrInputs == UNION {PayloadsOf(id) : id \in EventIdInputs}
SystemBodies ==
    {CheckinBody(Some(q), NULL, NULL) : q \in QrInputs}
    \cup {CheckinBody(NULL, Some("S1"), Some(id)) : id \in EventIdInputs}

NoEventBody == [name |-> NULL, isActive |-> NULL, courseSections |-> NULL]
NamedEventBody == [NoEventBody EXCEPT !.name = Some("Orientation")]
SystemEventBody ==
    [NamedEventBody EXCEPT
        !.courseSections = Some(<<[courseId |-> "CS", sectionId |-> "A"]>>)]
RenameBodies ==
    {[studentId |-> s, courseId |-> NULL, sectionId |-> NULL] :
        s \in {Some("S3")}}

\* The students some account is registered for.
LinkedStudentIds ==
    {s.id : s \in {x \in students : \E u \in users : u.studentId = x.studentId}}

NextSystem ==
    \/ \E p \in Procs, tok \in UserTokens, body \in SystemBodies :
          /\ (tok \in AdminTokens) = (body.qrCodeData = NULL)
          /\ CheckinLookup(p, tok, body)
    \/ \E p \in Procs : CheckinWrite(p)
    \/ \E tok \in AdminTokens : CreateEvent(tok, SystemEventBody)
    \/ \E tok \in AdminTokens, id \in EventIdInputs :
          UpdateEvent(tok, id, [NoEventBody EXCEPT !.isActive = Some(FALSE)])
    \/ \E tok \in AdminTokens, id \in EventIdInputs : DeleteEvent(tok, id)
    \/ \E tok \in AdminTokens, id \in EventIdInputs : RegenerateQr(tok, id)
    \/ \E tok \in AdminTokens, id \in LinkedStudentIds, body \in RenameBodies :
          UpdateStudent(tok, id, body)
    \/ \E tok \in AdminTokens, id \in LinkedStudentIds : DeleteStudent(tok, id)

SpecSystem == Init /\ [][NextSystem]_vars

\* ------------------------------------------ claims about the whole system
PairsOf(table) == {<<r.eventId, r.studentId>> : r \in table}

\* ABSENT = 0, PRESENT_IN = 1, PRESENT_OUT = 2.  A pair is PRESENT_OUT once a
\* check-in has set the timeOut of a row of the pair.
StateOf(table, pair) ==
    IF RowsOf(table, pair) = {} THEN 0
    ELSE IF \E r \in RowsOf(table, pair) : r.timeOut # NULL THEN 2
    ELSE 1

C5_PathsResolveSame ==
    \A e \in events, u \in users, s \in students : \A q \in PayloadsOf(e.id) :
        (u.studentId = s.studentId) =>
            LET qr == CheckinResolve(u, CheckinBody(Some(q), NULL, NULL))
                manual == CheckinResolve(u, CheckinBody(NULL, Some(s.studentId),
                                                        Some(e.id)))
            IN  /\ qr.status = 200 /\ manual.status = 200
                /\ qr.eventId = manual.eventId
                /\ qr.studentId = manual.studentId

\* C15: once an event's payload has been regenerated, a QR check-in of a
\* logged-in user that presents one of the event's previous payloads gets no
\* further than the lookup unless the student already has a row: no create is
\* ever pending for a previous payload.
C15_OldPayloadRejected ==
    [][\A e \in events, p \in Procs, tok \in UserTokens :
          \A q \in PayloadsOf(e.id) \ {e.qrCodeData} :
              CheckinLookup(p, tok, CheckinBody(Some(q), NULL, NULL))
                  => (req'[p].pc = "checkin" => req'[p].found # {})]_vars

\* C17: in every reachable state each attendance row has the id of an event
\* in the events table and the id of a student in the students table.
C17_RowsReferenceExisting ==
    \A r \in attendance :
        /\ \E e \in events : e.id = r.eventId
        /\ \E s \in students : s.id = r.studentId

\* ------------------------------------------------------ the scope resolver
\* The admin creates an event with a list of (course, section) associations,
\* replaces the list, toggles isActive and moves the student between courses
\* and sections, while users ask for the student's listing.  Events are
\* created active.
Assoc(c, s) == [courseId |-> c, sectionId |-> s]
AssociationLists ==
    {<<>>, <<Assoc("CS", "A")>>, <<Assoc("CS", "B")>>, <<Assoc("BUS", "A")>>,
     <<Assoc("BUS", "A"), Assoc("CS", "B")>>,
     <<Assoc("CS", "A"), Assoc(NullStr, "A")>>}
ScopeEventBodies ==
    {[NamedEventBody EXCEPT !.courseSections = cs] :
        cs \in {NULL} \cup {Some(l) : l \in AssociationLists}}
ScopeUpdateBodies ==
    {[NoEventBody EXCEPT !.isActive = Some(b)] : b \in BOOLEAN}
    \cup {[NamedEventBody EXCEPT !.courseSections = Some(l)] : l \in AssociationLists}
    \cup {[NoEventBody EXCEPT !.courseSections = Some(<<Assoc("CS", "B")>>)]}
MoveBodies ==
    {[studentId |-> NULL, courseId |-> Some(c), sectionId |-> Some(s)] :
        c \in {"CS", "BUS"}, s \in {"A", "B"}}

NextScope ==
    \/ \E tok \in AdminTokens, body \in ScopeEventBodies : CreateEvent(tok, body)
    \/ \E tok \in AdminTokens, id \in EventIdInputs, body \in ScopeUpdateBodies :
          UpdateEvent(tok, id, body)
    \/ \E tok \in AdminTokens, id \in LinkedStudentIds, body \in MoveBodies :
          UpdateStudent(tok, id, body)
    \/ \E tok \in AdminTokens, id \in LinkedStudentIds : DeleteStudent(tok, id)
    \/ \E tok \in TokenInputs : StudentEvents(tok)

SpecScope == Init /\ [][NextScope]_vars

\* ------------------------------------------- claims about the scope resolver
\* The ids of the events that have an association row with exactly the
\* student's course and section.
ExactMatches(s) ==
    {e.id : e \in {x \in events :
                      \E row \in eventCourseSections :
                          /\ row.eventId = x.id
                          /\ row.courseId = s.courseId
                          /\ row.sectionId = s.sectionId}}
ListedIds(s) == {x.event.id : x \in studentEvents(getAllEvents, s)}

\* C7: for every student and event, the event is in the student's listing
\* if and only if some association row of the event has both the student's
\* courseId and the student's sectionId; this holds of the filter for every
\* student row and of every listing the handler returns.
C7_VisibleIffExactMatch ==
    [][/\ \A s \in students : ListedIds(s) = ExactMatches(s)
       /\ \A tok \in UserTokens :
             (res'.op = "studentEvents" /\ res'.status = 200 /\ StudentEvents(tok)) =>
                \A u \in Authenticate(tok) :
                   \A s \in getStudentByStudentId(u.studentId) :
                      {x.id : x \in res'.events} = ExactMatches(s)]_vars

\* A student's listing came back empty while the only event has one
\* association row with the student's course and another section, and one
\* with the student's section and another course.
C7_Witness ==
    /\ res = ListingResponse({})
    /\ \E u \in users, s \in students, e \in events :
          /\ u.studentId = s.studentId
          /\ \E row \in getEventCourseSections(e.id) :
                row.courseId = s.courseId /\ row.sectionId # s.sectionId
          /\ \E row \in getEventCourseSections(e.id) :
                row.courseId # s.courseId /\ row.sectionId = s.sectionId

\* The events table changes in isActive flags only, nothing else changes.
OnlyIsActiveChanges ==
    /\ events' # events
    /\ {[e EXCEPT !.isActive = TRUE] : e \in events'} =
          {[e EXCEPT !.isActive = TRUE] : e \in events}
    /\ UNCHANGED <<eventCourseSections, students, users>>

\* C8: a step that changes nothing but isActive flags adds no event to and
\* removes no event from the listing of any student.
C8_ListingIgnoresIsActive ==
    [][OnlyIsActiveChanges => \A s \in students : ListedIds(s)' = ListedIds(s)]_vars

\* A listing that holds an event that has been deactivated.
C8_Witness ==
    /\ res.op = "studentEvents" /\ res.status = 200
    /\ \E x \in res.events :
          /\ ~x.isActive
          /\ \E e \in events : e.id = x.id /\ ~e.isActive

\* C19 (checked over the scope resolver's operations): when the k-th
\* association of a POST /api/events fails to insert, the answer is an error
\* (500) and the new event row is stored together with exactly the k-1
\* associations that precede the failing one.
C19_PartialCreateKept ==
    [][\A tok \in AdminTokens, body \in ScopeEventBodies :
          (/\ body.courseSections # NULL
           /\ \E i \in 1..Len(body.courseSections[1]) :
                 BadAssociation(body.courseSections[1][i])
           /\ CreateEvent(tok, body)) =>
              LET list == body.courseSections[1]
                  k == FirstBad(list)
                  id == DbUuid(nextEventId')
              IN  /\ res'.status = 500
                  /\ Cardinality(events') = Cardinality(events) + 1
                  /\ \E e \in events' \ events : e.id = id
                  /\ eventCourseSections' \ eventCourseSections =
                        {[eventId |-> id, courseId |-> list[i].courseId,
                          sectionId |-> list[i].sectionId] : i \in 1..(k - 1)}
                  /\ eventCourseSections \subseteq eventCourseSections']_vars

\* The creation was answered with the insert error, and the event is stored
\* with the one association that preceded the failing one.
C19_Witness ==
    /\ res = Response("createEvent", 500, NotNullViolation)
    /\ \E e \in events :
          getEventCourseSections(e.id) =
              {[eventId |-> e.id, courseId |-> "CS", sectionId |-> "A"]}

\* C23 (checked over the scope resolver's operations): an event update that
\* supplies courseSections leaves the event with exactly the supplied
\* (courseId, sectionId) pairs as its associations and the associations of
\* other events as they were; an update that omits courseSections changes no
\* association.
C23_AssociationsReplaced ==
    [][\A tok \in AdminTokens, id \in EventIdInputs, body \in ScopeUpdateBodies :
          UpdateEvent(tok, id, body) =>
              IF body.courseSections = NULL
              THEN eventCourseSections' = eventCourseSections
              ELSE LET list == body.courseSections[1]
                   IN  /\ getEventCourseSections(id)' =
                             {[eventId |-> id, courseId |-> list[i].courseId,
                               sectionId |-> list[i].sectionId] : i \in 1..Len(list)}
                       /\ {x \in eventCourseSections' : x.eventId # id} =
                             {x \in eventCourseSections : x.eventId # id}]_vars

\* --------------------------------- one event desk: flags, payloads, check-ins
\* The admin creates events, switches isActive off and on and regenerates
\* payloads, while check-ins by both paths are served one at a time (the clock
\* stands still).
NextDesk ==
    \/ \E tok \in UserTokens, body \in SystemBodies :
          /\ (tok \in AdminTokens) = (body.qrCodeData = NULL)
          /\ CheckinLookup("p1", tok, body)
    \/ CheckinWrite("p1")
    \/ \E tok \in AdminTokens : CreateEvent(tok, SystemEventBody)
    \/ \E tok \in AdminTokens, id \in EventIdInputs, b \in BOOLEAN :
          UpdateEvent(tok, id, [NoEventBody EXCEPT !.isActive = Some(b)])
    \/ \E tok \in AdminTokens, id \in EventIdInputs : RegenerateQr(tok, id)

SpecDesk == Init /\ [][NextDesk]_vars

\* C16: a QR regeneration for an event leaves every attendance row, every
\* association row, every student, user, course, section and settings row and
\* every other event as they were, adds and removes no event, and changes no
\* field of the event other than qrCodeData and qrCode.
C16_RegenerateFrame ==
    [][\A tok \in AdminTokens, id \in EventIdInputs :
          RegenerateQr(tok, id) =>
              /\ UNCHANGED <<users, students, eventCourseSections, attendance,
                             catalog>>
              /\ {e \in events' : e.id # id} = {e \in events : e.id # id}
              /\ Cardinality(events') = Cardinality(events)
              /\ \A e \in events : e.id = id =>
                    \E f \in events' :
                        [f EXCEPT !.qrCodeData = e.qrCodeData,
                                  !.qrCode = e.qrCode] = e]_vars

\* A deactivated event with an association row and a completed attendance row
\* has just had its payload regenerated.
C16_Witness ==
    /\ res = Response("regenerateQr", 200, "")
    /\ \E e \in events :
          /\ ~e.isActive
          /\ e.qrCodeData = JSONstringify(e.id, now)
          /\ getEventCourseSections(e.id) # {}
          /\ \E r \in attendance : r.eventId = e.id /\ r.timeOut # NULL

\* C18: a step that changes nothing but
\* isActive flags changes the resolution of no check-in request, and a manual
\* check-in for a stored student and a stored event passes the lookup for
\* that pair whether the event is active or not; the write that follows
\* depends on the looked-up row only.
C18_CheckinIgnoresIsActive ==
    [][/\ OnlyIsActiveChanges =>
             \A u \in users, body \in SystemBodies :
                 CheckinResolve(u, body)' = CheckinResolve(u, body)
       /\ \A p \in Procs, tok \in UserTokens, e \in events, s \in students :
             CheckinLookup(p, tok, CheckinBody(NULL, Some(s.studentId), Some(e.id)))
                 => /\ req'[p].pc = "checkin"
                    /\ req'[p].eventId = e.id /\ req'[p].studentId = s.id
                    /\ req'[p].found \subseteq getAttendance(e.id, s.id)
       /\ \A p \in Procs :
             CheckinWriteStep(p) =>
                 attendance' \in
                     {attendance \cup {createAttendance(req[p].eventId,
                                                        req[p].studentId,
                                                        Some(now), NULL)},
                      attendance}
                     \cup {updateAttendance(a.id, Some(now)) : a \in req[p].found}]_vars

\* A check-in answered "out" for an event that is stored as inactive.
C18_Witness ==
    /\ res.op = "checkin" /\ res.status = 200 /\ res.type = "out"
    /\ \E r \in res.attendance, e \in events :
          e.id = r.eventId /\ ~e.isActive /\ r \in attendance

\* ------------------------------------------------------- the identity gate
\* The admin enters a student; registrations, one at a time, and logins.
NewPassword == <<"h", "u", "n", "t", "e", "r">>
ShortPassword == <<"a", "b", "c">>
RegisterBodies ==
    {[studentId |-> sid, email |-> em, password |-> pw, age |-> ag,
      birthday |-> "2006-02-02"] :
        sid \in {"S1", "S2", "S9", ""},
        em \in {StudentEmail, "s2@school.edu", "s3@school.edu", "not-an-email"},
        pw \in {NewPassword, ShortPassword},
        ag \in {<<"1", "9">>, <<"0", "2", "0">>, <<"1", "x">>,
                <<"2", "1", "4", "7", "4", "8", "3", "6", "4", "8">>}}
LoginBodies ==
    {[email |-> em, password |-> pw] :
        em \in {AdminEmail, StudentEmail, "s2@school.edu", "nobody@school.edu",
                "not-an-email"},
        pw \in {AdminPassword, StudentPassword, NewPassword, <<>>}}

NewStudentBody ==
    [studentId |-> Some("S9"), courseId |-> Some("CS"), sectionId |-> Some("B")]

NextAuth ==
    \/ \E tok \in AdminTokens : CreateStudent(tok, NewStudentBody)
    \/ \E body \in RegisterBodies : RegisterLookup("p1", body)
    \/ RegisterWrite("p1")
    \/ \E body \in LoginBodies : Login(body)

SpecAuth == Init /\ [][NextAuth]_vars

\* -------------------------------------------- claims about the identity gate
\* C9: a registration whose body passes validation has three outcomes: 404
\* 'Student ID not found in system' and no new User when no student has the
\* studentId; otherwise 400 'Email already registered' and no new User when a
\* User has the email; otherwise 'Registration successful', one new User with
\* role student, and a login with the same email and password succeeds.
C9_RegistrationOutcomes ==
    [][\A p \in Procs :
         /\ \A body \in RegisterBodies :
               (RegisterValid(body) /\ RegisterLookup(p, body)) =>
                  IF getStudentByStudentId(body.studentId) = {}
                  THEN /\ res' = Response("register", 404,
                                          "Student ID not found in system")
                       /\ users' = users /\ req' = req
                  ELSE IF getUserByEmail(body.email) # {}
                  THEN /\ res' = Response("register", 400, "Email already registered")
                       /\ users' = users /\ req' = req
                  ELSE req'[p].pc = "register"
         /\ (req[p].pc = "register" /\ req'[p].pc = "idle") =>
               /\ res' = Response("register", 200, "Registration successful")
               /\ Cardinality(users' \ users) = 1
               /\ \A body \in RegisterBodies :
                     body = req[p].body =>
                        /\ \A u \in users' \ users :
                              u.role = "student" /\ u.email = body.email
                        /\ LoginOutcome([email |-> body.email,
                                         password |-> body.password])'.status = 200]_vars

\* C10: a login that passes validation and fails, because no User has the
\* email or because the password does not match, is answered 401 'Invalid
\* credentials' with the same response fields in both cases, and issues no
\* token.
C10_UniformLoginFailure ==
    [][\A body \in LoginBodies :
          ( /\ LoginValid(body)
            /\ \/ getUserByEmail(body.email) = {}
               \/ \A u \in getUserByEmail(body.email) :
                     ~BcryptCompare(body.password, u.password)
            /\ Login(body) ) =>
               /\ res' = Response("login", 401, "Invalid credentials")
               /\ tokens' = tokens]_vars

\* A login was refused, and among the requests that are refused are one
\* with an unknown email and one with a registered email and a wrong password.
C10_Witness ==
    /\ res = Response("login", 401, "Invalid credentials")
    /\ \E b1, b2 \in LoginBodies :
          /\ LoginValid(b1) /\ LoginValid(b2)
          /\ getUserByEmail(b1.email) = {}
          /\ getUserByEmail(b2.email) # {}
          /\ LoginOutcome(b1).status = 401
          /\ LoginOutcome(b1) = LoginOutcome(b2)

\* ------------------------------------------------- concurrent sign-ups
\* Registrations served concurrently: each awaits its lookups, then its writes.
SignupBodies ==
    {[studentId |-> sid, email |-> em, password |-> NewPassword, age |-> ag,
      birthday |-> "2006-02-02"] :
        sid \in {"S1", "S2", "S9"},
        em \in {StudentEmail, "s2@school.edu", "s3@school.edu", "not-an-email"},
        ag \in {<<"1", "9">>, <<"2", "1">>,
                <<"2", "1", "4", "7", "4", "8", "3", "6", "4", "8">>}}

NextSignup ==
    \/ \E p \in Procs, body \in SignupBodies : RegisterLookup(p, body)
    \/ \E p \in Procs : RegisterWrite(p)

SpecSignup == Init /\ [][NextSignup]_vars

RegisterWriteStep(p) == req[p].pc = "register" /\ req'[p].pc = "idle"

\* C21: no two User rows share an email, before and after every step; a
\* registration that reaches its writes when a User with its email exists
\* (it lost the race) is answered with an error and adds no User.
C21_EmailUnique ==
    [][/\ \A u1, u2 \in users : u1.email = u2.email => u1 = u2
       /\ \A u1, u2 \in users' : u1.email = u2.email => u1 = u2
       /\ \A p \in Procs :
             (RegisterWriteStep(p) /\ getUserByEmail(req[p].body.email) # {}) =>
                 /\ res'.op = "register" /\ res'.status >= 400
                 /\ users' = users]_vars

\* Two registrations with the same new email overlapped: one created the
\* User, the other was answered with the constraint's error.
C21_Witness ==
    /\ res = Response("register", 500, UniqueViolation)
    /\ \A p \in Procs : req[p].pc = "idle"
    /\ Cardinality(users) = 3
    /\ \E u \in users : u.email = "s2@school.edu"

\* C25: a registration that is answered with an error, at its lookups or at
\* its writes, leaves every Student row and the users table as they were.
C25_FailedRegistrationChangesNothing ==
    [][\A p \in Procs :
          /\ (RegisterWriteStep(p) /\ res'.status >= 400) =>
                students' = students /\ users' = users
          /\ \A body \in SignupBodies :
                (RegisterLookup(p, body) /\ req'[p].pc = "idle") =>
                    students' = students /\ users' = users]_vars

\* C26: no two User rows carry the same studentId (other than none).
C26_OneAccountPerStudent ==
    \A u1, u2 \in users :
        (u1.studentId # NullStr /\ u1.studentId = u2.studentId) => u1 = u2

\* ------------------------------------------------------- access control
\* The routes behind authMiddleware and their inputs.

CourseBody == [name |-> Some("Physics")]
SectionBody == [courseId |-> Some("CS"), name |-> Some("Section C")]
ImportList ==
    <<[studentId |-> Some("S8"), courseId |-> Some("CS"), sectionId |-> Some("A")]>>
SettingsBodies ==
    {[systemName |-> NULL, qrCodeEnabled |-> NULL],
     [systemName |-> Some("School"), qrCodeEnabled |-> NULL],
     [systemName |-> NULL, qrCodeEnabled |-> Some(FALSE)]}
ProfileBody ==
    [age |-> Some(<<"2", "1">>), email |-> Some("new@school.edu"), birthday |-> NULL]
CourseIdInputs == {c.id : c \in courses}
SectionIdInputs == {x.id : x \in sections}
AccessCheckinBody == CheckinBody(NULL, Some("S2"), Some(DbUuid(1)))

RolesOf(tok) == {u.role : u \in Authenticate(tok)}

\* The operations tagged admin.
AdminOps(tok) ==
    \/ CreateStudent(tok, NewStudentBody)
    \/ \E id \in StudentIdInputs, body \in RenameBodies : UpdateStudent(tok, id, body)
    \/ \E id \in StudentIdInputs : DeleteStudent(tok, id)
    \/ ImportStudents(tok, ImportList)
    \/ CreateCourse(tok, CourseBody)
    \/ \E id \in CourseIdInputs : UpdateCourse(tok, id, [name |-> Some("Chemistry")])
    \/ \E id \in CourseIdInputs : DeleteCourse(tok, id)
    \/ CreateSection(tok, SectionBody)
    \/ \E id \in SectionIdInputs : UpdateSection(tok, id, [courseId |-> Some("BUS"), name |-> NULL])
    \/ \E id \in SectionIdInputs : DeleteSection(tok, id)
    \/ CreateEvent(tok, NamedEventBody)
    \/ \E id \in EventIdInputs :
          UpdateEvent(tok, id, [NoEventBody EXCEPT !.isActive = Some(FALSE)])
    \/ \E id \in EventIdInputs : DeleteEvent(tok, id)
    \/ \E id \in EventIdInputs : RegenerateQr(tok, id)
    \/ AdminStats(tok)
    \/ \E p \in Procs, body \in SettingsBodies : SettingsLookup(p, tok, body)

\* The operations tagged student.
StudentOps(tok) ==
    \/ StudentProfile(tok)
    \/ UpdateStudentProfile(tok, ProfileBody)
    \/ StudentStats(tok)
    \/ StudentEvents(tok)

\* The operations open to every authenticated user.
OpenOps(tok) ==
    \/ \E op \in ListOps : GetList(op, tok)
    \/ GetSettings(tok)
    \/ \E p \in Procs : CheckinLookup(p, tok, AccessCheckinBody)

\* What the admin does to fill the tables: one student, course, section and
\* event, an import, and the settings.
AdminSetup(tok) ==
    \/ CreateStudent(tok, NewStudentBody)
    \/ ImportStudents(tok, ImportList)
    \/ CreateCourse(tok, CourseBody)
    \/ CreateSection(tok, SectionBody)
    \/ CreateEvent(tok, NamedEventBody)
    \/ SettingsLookup("p1", tok, [systemName |-> Some("School"), qrCodeEnabled |-> NULL])

\* The role check: each user calls the routes of the other role, while the
\* admin fills the tables.
NextRoles ==
    \/ \E tok \in UserTokens : RolesOf(tok) # {"admin"} /\ AdminOps(tok)
    \/ \E tok \in UserTokens : RolesOf(tok) # {"student"} /\ StudentOps(tok)
    \/ \E tok \in AdminTokens : AdminSetup(tok)
    \/ SettingsWrite("p1")

SpecRoles == Init /\ [][NextRoles]_vars

\* The middleware: requests without a token that authenticates, on every
\* route, while the admin creates an event and writes the settings.
TokenSetup(tok) ==
    \/ CreateEvent(tok, NamedEventBody)
    \/ SettingsLookup("p1", tok, [systemName |-> Some("School"), qrCodeEnabled |-> NULL])

BadTokens == {NULL, Some(ForgedToken), Some(ExpiredToken), Some(StaleToken)}
NextTokens ==
    \/ \E tok \in BadTokens : AdminOps(tok)
    \/ \E tok \in BadTokens : StudentOps(tok)
    \/ \E tok \in BadTokens : OpenOps(tok)
    \/ \E tok \in AdminTokens : TokenSetup(tok)
    \/ SettingsWrite("p1")

SpecTokens == Init /\ [][NextTokens]_vars

\* ---------------------------------------------- claims about access control
Stored == <<tables, catalog, tokens, req>>

\* C11: an operation tagged admin that an authenticated student calls, and an
\* operation tagged student that an authenticated admin calls, is answered
\* 403 and changes no table and starts no write.
C11_RoleExact ==
    [][\A tok \in UserTokens :
          /\ (RolesOf(tok) = {"student"} /\ AdminOps(tok)) =>
                /\ res'.status = 403 /\ res'.message = "Admin access required"
                /\ UNCHANGED Stored
          /\ (RolesOf(tok) = {"admin"} /\ StudentOps(tok)) =>
                /\ res'.status = 403 /\ res'.message = "Student access required"
                /\ UNCHANGED Stored]_vars

\* The student was refused the deletion of an event that exists.
C11_Witness ==
    /\ res = Response("deleteEvent", 403, "Admin access required")
    /\ events # {}

\* C12: a request to a protected route whose token is missing, does not
\* verify (signature, expiry) or names a user without a row is answered 401
\* with the middleware's message, and no table changes and no write starts:
\* the handler is not entered.
NoPrincipal(tok) ==
    \/ tok = NULL
    \/ ~tok[1].signed
    \/ tok[1].expired
    \/ \A u \in users : u.id # tok[1].userId

C12_TokenRequired ==
    [][\A tok \in BadTokens :
          (NoPrincipal(tok) /\ (AdminOps(tok) \/ StudentOps(tok) \/ OpenOps(tok))) =>
             /\ res' = [op |-> res'.op, status |-> 401, message |-> AuthError(tok)]
             /\ UNCHANGED Stored]_vars

\* A request with a signed token of a user that has no row was refused an
\* event deletion while an event exists.
C12_Witness ==
    /\ res = Response("deleteEvent", 401, "User not found")
    /\ events # {}

\* ------------------------------------------------------------ the settings
\* The admin writes the settings from two sessions at once, users read them,
\* time passes.
NextSettings ==
    \/ \E p \in Procs, tok \in AdminTokens, body \in SettingsBodies :
          SettingsLookup(p, tok, body)
    \/ \E p \in Procs : SettingsWrite(p)
    \/ \E tok \in UserTokens : GetSettings(tok)
    \/ Tick

SpecSettings == Init /\ [][NextSettings]_vars

\* ------------------------------------------------ claims about the settings
SettingsWriteStep(p) == req[p].pc = "settings" /\ req'[p].pc = "idle"

\* What a write makes of a field: the supplied value, or else the old one.
Supplied(field, old) == IF field = NULL THEN old ELSE field[1]

\* C13: a settings write that no other write overlaps (the table is still
\* what its lookup found) creates exactly one row when the table is empty,
\* and otherwise updates the one row, keeping its id, setting the supplied
\* fields and leaving the table with one row.
C13_SettingsSingleton ==
    [][\A p \in Procs :
          (SettingsWriteStep(p) /\ systemSettings = req[p].existing) =>
             LET body == req[p].body
             IN  /\ Cardinality(systemSettings') = 1
                 /\ \A new \in systemSettings' :
                       IF systemSettings = {}
                       THEN /\ new.systemName =
                                  Supplied(body.systemName, DefaultSettings.systemName)
                            /\ new.qrCodeEnabled =
                                  Supplied(body.qrCodeEnabled, DefaultSettings.qrCodeEnabled)
                       ELSE \A old \in systemSettings :
                               /\ new.id = old.id
                               /\ new.systemName = Supplied(body.systemName, old.systemName)
                               /\ new.qrCodeEnabled =
                                     Supplied(body.qrCodeEnabled, old.qrCodeEnabled)]_vars

\* The single row holds a name and a flag that no single request supplies
\* together: it was created by one write and updated by a later one.
C13_Witness ==
    /\ \A p \in Procs : req[p].pc = "idle"
    /\ nextRowId = 1
    /\ \E x \in systemSettings :
          x.id = RowUuid(1) /\ x.systemName = "School" /\ ~x.qrCodeEnabled

\* C14: the settings table never holds more than one row.
C14_AtMostOneSettingsRow == Cardinality(systemSettings) <= 1


\* ------------------------------------------------------ the student desk
\* Both logged-in users call the four student routes.
StudentCrud(tok) ==
    \/ GetList("getStudents", tok)
    \/ CreateStudent(tok, NewStudentBody)
    \/ \E id \in StudentIdInputs, body \in RenameBodies : UpdateStudent(tok, id, body)
    \/ \E id \in StudentIdInputs : DeleteStudent(tok, id)

NextStudentCrud == \E tok \in UserTokens : StudentCrud(tok)

SpecStudentCrud == Init /\ [][NextStudentCrud]_vars

\* C22: listing, creating, updating and deleting students change the
\* students table only when the caller is the admin, and each of the four,
\* called by a student, is answered 403 and changes nothing.
C22_StudentRoutesAdminOnly ==
    [][\A tok \in UserTokens :
          StudentCrud(tok) =>
              /\ students' # students => RolesOf(tok) = {"admin"}
              /\ RolesOf(tok) = {"student"} =>
                    /\ res'.status = 403
                    /\ UNCHANGED Stored]_vars

====
